---- MODULE Spec2Model ----
(***************************************************************************)
(* A model of cluster-control: rc/dashboard.py (the per-host dashboard     *)
(* producer: parse_queue, get_recent, get_last_activity_time, main) and    *)
(* swiftbar.py (the aggregator: get_dashboards, get_dashboard).            *)
(*                                                                         *)
(* Text is a sequence of characters.  A character is one of the three      *)
(* whitespace characters TAB, NL, SP, or a chunk: a run of non-whitespace  *)
(* characters kept in one piece ("foo", "PENDING", "2024-01-01T00:00:00"). *)
(* Time is counted in days since 2024-01-01T00:00:00; the clock ticks in    *)
(* whole days, so the datetime.now() reads of one parse_queue call, one    *)
(* per PENDING line, all give the reading the call started at.             *)
(*                                                                         *)
(* Each operation has a specification of its own (SpecParse, SpecRecent,   *)
(* SpecAgg, SpecMain) over the variables it uses.                          *)
(***************************************************************************)
EXTENDS Integers, Sequences, FiniteSets, TLC

VARIABLES
    output,     \* parse_queue: the raw text handed to it
    now,        \* what datetime.now() reads
    calls,      \* parse_queue: the outcomes of its successive applications
    at,         \* parse_queue: the clock reading of each application
    fs,         \* the entries of the experiments root
    listing,    \* the order in which experiments_path.glob("*") yields them
    creation_cutoff,    \* get_recent: its argument (main: once parsed)
    activity_cutoff,    \* get_recent: its argument (main: once parsed)
    queue,      \* get_recent: its argument (main: what get_queue returned)
    experiments,    \* get_recent: its list `experiments`, once it has run
    recent,     \* get_recent: None, or <<the list it returned>>
    servers,    \* get_dashboards: the keys of config["servers"], in declared order
    remote,     \* get_dashboards: what ssh to each host's dashboard.py results in
    pos,        \* get_dashboards: the place in `servers` of the next host
    inflight,   \* get_dashboards: None, or <<the key whose ssh is running>>
    dashboards, \* get_dashboards: the entries built so far
    a_pc,       \* get_dashboards: "iterating" or "returned"
    log,        \* get_dashboards: the ssh runs started and ended, in order
    squeue,     \* main: what the squeue run of get_queue results in
    args,       \* main: its two cutoff options
    m_pc,       \* main: the statement it is at, "done" or "aborted"
    sys_stdout, \* main: the documents written to sys.stdout
    sys_stderr  \* main: the errors reported

pvars == <<output, now, calls, at>>
rvars ==
    <<fs, listing, creation_cutoff, activity_cutoff, queue, experiments, recent>>
avars == <<servers, remote, pos, inflight, dashboards, a_pc, log>>
mvars == <<squeue, args, m_pc, sys_stdout, sys_stderr>>
vars == <<pvars, rvars, avars, mvars>>

\* Python's None
None == <<>>

\* the variables of the operations a specification leaves out stay as they are
ParseUnused == output = <<>> /\ now = 0 /\ calls = <<>> /\ at = <<>>

RecentUnused ==
    /\ fs = <<>>
    /\ listing = <<>>
    /\ creation_cutoff = 0
    /\ activity_cutoff = 0
    /\ queue = <<>>
    /\ experiments = <<>>
    /\ recent = None

AggUnused ==
    /\ servers = <<>>
    /\ remote = <<>>
    /\ pos = 0
    /\ inflight = None
    /\ dashboards = <<>>
    /\ a_pc = "unused"
    /\ log = <<>>

MainUnused ==
    /\ squeue = <<>>
    /\ args = <<>>
    /\ m_pc = "unused"
    /\ sys_stdout = <<>>
    /\ sys_stderr = <<>>

-----------------------------------------------------------------------------
(* Bounds of the model *)

\* data lines after the header in a raw text
MaxLines == 2
\* the clock runs over 0..MaxNow
MaxNow == 2
\* applications of parse_queue to one raw text
MaxCalls == 2
\* file times (st_ctime, st_mtime) and cutoffs run over 0..MaxTime
MaxTime == 1
\* hosts of the configuration
MaxHosts == 3

-----------------------------------------------------------------------------
(* Text: str.strip, str.split *)

TAB == "TAB"
NL == "NL"
SP == "SP"
Whitespace == {TAB, NL, SP}

RECURSIVE LStrip(_)
LStrip(s) ==
    IF s # <<>> /\ Head(s) \in Whitespace THEN LStrip(Tail(s)) ELSE s

RECURSIVE RStrip(_)
RStrip(s) ==
    IF s # <<>> /\ s[Len(s)] \in Whitespace
    THEN RStrip(SubSeq(s, 1, Len(s) - 1))
    ELSE s

\* str.strip(): leading and trailing whitespace removed
Strip(s) == RStrip(LStrip(s))

\* str.split(sep): the pieces between the separators, at least one piece
RECURSIVE Split(_, _)
Split(s, sep) ==
    IF \A i \in 1..Len(s) : s[i] # sep
    THEN <<s>>
    ELSE LET i == CHOOSE j \in 1..Len(s) :
                    s[j] = sep /\ \A k \in 1..(j - 1) : s[k] # sep
         IN  <<SubSeq(s, 1, i - 1)>> \o Split(SubSeq(s, i + 1, Len(s)), sep)

-----------------------------------------------------------------------------
(* Dates: datetime.fromisoformat, datetime.isoformat, timedelta, str *)

\* the texts datetime.fromisoformat accepts, with the day each denotes;
\* "2024-01-02" is the date-only form of day 1
IsoTexts == {"2024-01-01T00:00:00", "2024-01-02T00:00:00", "2024-01-02"}

fromisoformat_ok(field) == Len(field) = 1 /\ field[1] \in IsoTexts

fromisoformat(field) == IF field[1] = "2024-01-01T00:00:00" THEN 0 ELSE 1

\* datetime.isoformat(): the canonical text of a time
isoformat(t) == [iso |-> t]

\* a timedelta d is truthy unless it is zero
timedelta_truthy(d) == d # 0

\* str(timedelta)
str_timedelta(d) == [timedelta |-> d]

-----------------------------------------------------------------------------
(* rc/dashboard.py: parse_queue *)

Raise(what) == [kind |-> "raise", error |-> what, jobs |-> <<>>]
Return(js) == [kind |-> "return", error |-> None, jobs |-> js]

\* lines[1:]: the header is skipped
DataLinesWithHeader(lines) == lines
DataLines(lines) == Tail(lines)

\* len(parts) == 4
SchemaMatches(parts) == Len(parts) = 4

\* jobs.append(...)
JobsPrepend(jobs, job) == <<job>> \o jobs
JobsAppend(jobs, job) == Append(jobs, job)

\* "time_started": time_started.isoformat()
TimeStartedOfClock(time_started, clock) == isoformat(clock - time_started)
TimeStartedField(time_started, clock) == isoformat(time_started)

\* the dictionary appended for one 4-field line whose time_started parses
Job(parts, clock) ==
    LET job_name == parts[1]
        status == parts[2]
        time_left == parts[3]
        time_started == fromisoformat(parts[4])
        time_pending == IF status = <<"PENDING">>
                        THEN <<clock - time_started>>
                        ELSE None
    IN  [job_name |-> job_name,
         status |-> status,
         time_left |-> time_left,
         time_started |-> TimeStartedField(time_started, clock),
         time_pending |-> IF time_pending # None
                             /\ timedelta_truthy(time_pending[1])
                          THEN str_timedelta(time_pending[1])
                          ELSE None]

RECURSIVE parse_lines(_, _, _)
parse_lines(lines, jobs, clock) ==
    IF lines = <<>>
    THEN Return(jobs)
    ELSE LET line == Head(lines)
             parts == Split(line, TAB)
         IN  IF Strip(line) = <<>>
             THEN parse_lines(Tail(lines), jobs, clock)
             ELSE IF SchemaMatches(parts)
             THEN IF fromisoformat_ok(parts[4])
                  THEN parse_lines(Tail(lines), JobsAppend(jobs, Job(parts, clock)), clock)
                  ELSE Raise("ValueError")
             ELSE parse_lines(Tail(lines), jobs, clock)

parse_queue(text, clock) ==
    parse_lines(DataLines(Split(Strip(text), NL)), <<>>, clock)

-----------------------------------------------------------------------------
(* The raw texts parse_queue is applied to *)

L_running == <<"foo", TAB, "RUNNING", TAB, "1:00:00", TAB, "2024-01-01T00:00:00">>
L_pending == <<"bar", TAB, "PENDING", TAB, "-", TAB, "2024-01-02T00:00:00">>
L_failed == <<"qux", TAB, "FAILED", TAB, "0:00", TAB, "2024-01-02">>
L_three == <<"foo", TAB, "RUNNING", TAB, "1:00:00">>
L_two == <<"onlytwo", TAB, "fields">>
L_five == <<"foo", TAB, "RUNNING", TAB, "1:00:00", TAB, "2024-01-01T00:00:00", TAB>>
L_badtime == <<"baz", TAB, "PENDING", TAB, "-", TAB, "N/A">>

LineKinds ==
    {<<>>, <<SP>>, L_running, L_pending, L_failed, L_three, L_two, L_five,
     L_badtime}

Headers == {<<"NAME", TAB, "STATE", TAB, "TIME">>, <<>>, L_running}

Endings == {<<>>, <<NL>>}

RECURSIVE LinesUpTo(_)
LinesUpTo(n) ==
    IF n = 0
    THEN {<<>>}
    ELSE LinesUpTo(n - 1)
         \cup {Append(ls, l) : ls \in {x \in LinesUpTo(n - 1) : Len(x) = n - 1},
                                l \in LineKinds}

RECURSIVE Join(_)
Join(ls) == IF ls = <<>> THEN <<>> ELSE <<NL>> \o Head(ls) \o Join(Tail(ls))

RawTexts ==
    {h \o Join(ls) \o e : h \in Headers, ls \in LinesUpTo(MaxLines), e \in Endings}

-----------------------------------------------------------------------------
(* parse_queue applied to one raw text, at successive times *)

ParseInit ==
    /\ output \in RawTexts
    /\ now \in 0..MaxNow
    /\ calls = <<>>
    /\ at = <<>>
    /\ RecentUnused
    /\ AggUnused
    /\ MainUnused

\* parse_queue(output) is applied once more, the clock reading `now`
ParseQueue ==
    /\ Len(calls) < MaxCalls
    /\ calls' = Append(calls, parse_queue(output, now))
    /\ at' = Append(at, now)
    /\ UNCHANGED <<output, now, rvars, avars, mvars>>

\* time passes between two applications
Tick ==
    /\ now < MaxNow
    /\ calls # <<>>
    /\ now' = now + 1
    /\ UNCHANGED <<output, calls, at, rvars, avars, mvars>>

ParseNext == ParseQueue \/ Tick

SpecParse == ParseInit /\ [][ParseNext]_vars

-----------------------------------------------------------------------------
(* What the claims about parse_queue speak of *)

IsBlank(line) == \A i \in 1..Len(line) : line[i] \in Whitespace

\* the lines of a text, the header first
LinesOf(text) == Split(text, NL)

FieldCount(line) == Len(Split(line, TAB))

\* a line of job_name, status, time_left
WellFormed3(line) == FieldCount(line) = 3 /\ ~IsBlank(line)

\* a line of job_name, status, time_left, time_started
WellFormed4(line) ==
    /\ FieldCount(line) = 4
    /\ fromisoformat_ok(Split(line, TAB)[4])

NonBlank(lines) == SelectSeq(lines, LAMBDA l : ~IsBlank(l))

Conforming(lines) == SelectSeq(lines, LAMBDA l : ~IsBlank(l) /\ FieldCount(l) = 4)

\* a job's job_name, status and time_left are those of the line
Carries(job, line) ==
    LET parts == Split(line, TAB)
    IN  /\ job.job_name = parts[1]
        /\ job.status = parts[2]
        /\ job.time_left = parts[3]

\* one record per non-blank data line, each carrying its line's fields
OnePerLine(call, data) ==
    LET lines == NonBlank(data)
    IN  /\ call.kind = "return"
        /\ Len(call.jobs) = Len(lines)
        /\ \A k \in 1..Len(call.jobs) : Carries(call.jobs[k], lines[k])

\* a non-blank header line followed by data lines that are blank or well formed
HeaderThen(text, WellFormed(_)) ==
    LET lines == LinesOf(text)
    IN  /\ ~IsBlank(Head(lines))
        /\ \A i \in 2..Len(lines) : IsBlank(lines[i]) \/ WellFormed(lines[i])

\* C5, as stated: a header line followed by well-formed 3-field lines yields
\* one Job record per non-blank data line, carrying the line's job_name,
\* status and time_left.
C5_ThreeFieldLinesParsed ==
    HeaderThen(output, WellFormed3)
        => \A c \in 1..Len(calls) : OnePerLine(calls[c], Tail(LinesOf(output)))

\* C5, amended: a non-blank header line followed by well-formed 4-field lines
\* (job_name, status, time_left, time_started) yields one Job record per
\* non-blank data line, carrying the line's job_name, status and time_left.
C5_FourFieldLinesParsed ==
    HeaderThen(output, WellFormed4)
        => \A c \in 1..Len(calls) : OnePerLine(calls[c], Tail(LinesOf(output)))

\* C5's case: two well-formed 4-field lines after a header, parsed
C5_Witness ==
    /\ calls # <<>>
    /\ HeaderThen(output, WellFormed4)
    /\ Len(NonBlank(Tail(LinesOf(output)))) = 2
    /\ Len(calls[1].jobs) = 2

\* the record of a schema-conforming line, time_pending left aside
RecordOf(line) ==
    LET parts == Split(line, TAB)
    IN  [job_name |-> parts[1],
         status |-> parts[2],
         time_left |-> parts[3],
         time_started |-> isoformat(fromisoformat(parts[4]))]

WithoutPending(job) ==
    [job_name |-> job.job_name,
     status |-> job.status,
     time_left |-> job.time_left,
     time_started |-> job.time_started]

SeqMap(Op(_), s) == [i \in 1..Len(s) |-> Op(s[i])]

\* the output is the records of the conforming lines among `data`, in their
\* order, and only a conforming line can make the call raise
ExactlyConforming(call, data) ==
    LET lines == Conforming(data)
    IN  /\ call.kind = "return"
              => SeqMap(WithoutPending, call.jobs) = SeqMap(RecordOf, lines)
        /\ call.kind = "raise"
              => \E i \in 1..Len(lines) : ~fromisoformat_ok(Split(lines[i], TAB)[4])

\* C6, as stated: the first line of the text is discarded, blank lines are
\* skipped, a line whose field count is not 4 is dropped without raising, and
\* the output is exactly the records of the other data lines, in order.
C6_FirstLineOfTextDiscarded ==
    LET data == Tail(LinesOf(output))
    IN  \A c \in 1..Len(calls) : ExactlyConforming(calls[c], data)

\* C6, amended: the same of the text with its leading and trailing whitespace
\* stripped: the first line of the stripped text is discarded, and the output
\* is exactly the records of the 4-field lines among the other lines of the
\* stripped text, in order.
C6_FirstLineOfStrippedTextDiscarded ==
    LET data == Tail(LinesOf(Strip(output)))
    IN  \A c \in 1..Len(calls) : ExactlyConforming(calls[c], data)

\* C6's case: a header, a 2-field line, a 4-field line: one record
C6_Witness ==
    /\ calls # <<>>
    /\ Tail(LinesOf(Strip(output))) = <<L_two, L_pending>>
    /\ calls[1].kind = "return"
    /\ Len(calls[1].jobs) = 1

\* C7: a job carries a time_pending, the text of now - time_started, if and
\* only if its status is PENDING.
C7_TimePendingIffPending ==
    \A c \in 1..Len(calls) :
        \A k \in 1..Len(calls[c].jobs) :
            LET job == calls[c].jobs[k]
            IN  IF job.status = <<"PENDING">>
                THEN job.time_pending = str_timedelta(at[c] - job.time_started.iso)
                ELSE job.time_pending = None

\* C8, as stated: two applications to the same text, at any two times, yield
\* identical outcomes.
C8_SameAtAnyTwoTimes ==
    \A c \in 1..Len(calls) : \A d \in 1..Len(calls) : calls[c] = calls[d]

OutcomeWithoutPending(call) ==
    [kind |-> call.kind, error |-> call.error,
     jobs |-> SeqMap(WithoutPending, call.jobs)]

\* C8, amended: two applications to the same text yield outcomes identical in
\* every field but time_pending, and identical in time_pending too when the
\* clock reads the same at both.
C8_SameButTimePending ==
    \A c \in 1..Len(calls) : \A d \in 1..Len(calls) :
        /\ OutcomeWithoutPending(calls[c]) = OutcomeWithoutPending(calls[d])
        /\ at[c] = at[d] => calls[c] = calls[d]

\* C8's case: two applications at two times, a PENDING job in the output
C8_Witness ==
    /\ Len(calls) >= 2
    /\ at[1] # at[2]
    /\ \E k \in 1..Len(calls[1].jobs) : calls[1].jobs[k].status = <<"PENDING">>
    /\ calls[1] # calls[2]

-----------------------------------------------------------------------------
(* rc/dashboard.py: get_last_activity_time, get_recent, format_dates *)

\* max() of a non-empty collection of times
RECURSIVE py_max(_)
py_max(S) ==
    LET x == CHOOSE y \in S : TRUE
    IN  IF S = {x}
        THEN x
        ELSE LET m == py_max(S \ {x}) IN IF x > m THEN x ELSE m

\* a directory `path` of the root: path.outputs are the modification times of
\* the files matching output/*.txt in it
MaxWithDirectory(path) == py_max(path.outputs \cup {path.mtime})
get_last_activity_time(path) ==
    LET timestamps == path.outputs
    IN  IF timestamps # {} THEN py_max(timestamps) ELSE path.mtime

\* {key: value.isoformat() if isinstance(value, datetime) else value}
format_dates(values) ==
    [experiment_name |-> values.experiment_name,
     time_activity |-> isoformat(values.time_activity)]

\* the condition of the comprehension that builds experiment_paths
IsDirCreatedSince(root, name, cutoff) ==
    root[name].kind = "dir" /\ root[name].ctime >= cutoff

\* the condition of the comprehension that builds result
InQueueAllowed(experiment, cutoff, queue_job_names) ==
    experiment.time_activity > cutoff
IsRecent(experiment, cutoff, queue_job_names) ==
    /\ experiment.time_activity > cutoff
    /\ experiment.experiment_name \notin queue_job_names

\* the list `experiments` of get_recent: name and activity time of every
\* directory that glob yields and that was created at or after the cutoff
Experiments(root, order, c_cutoff) ==
    LET experiment_paths ==
            SelectSeq(order, LAMBDA name : IsDirCreatedSince(root, name, c_cutoff))
    IN  [i \in 1..Len(experiment_paths) |->
            [experiment_name |-> experiment_paths[i],
             time_activity |-> get_last_activity_time(root[experiment_paths[i]])]]

get_recent(root, order, c_cutoff, a_cutoff, q) ==
    LET queue_job_names == {q[i].job_name : i \in 1..Len(q)}
        kept ==
            SelectSeq(Experiments(root, order, c_cutoff),
                      LAMBDA e : IsRecent(e, a_cutoff, queue_job_names))
    IN  [i \in 1..Len(kept) |-> format_dates(kept[i])]

-----------------------------------------------------------------------------
(* The experiments roots and queues get_recent is applied to *)

Names == {<<"foo">>, <<"bar">>}

Times == 0..MaxTime

\* a top-level entry: a plain file, or a directory with its creation time,
\* its modification time and the modification times of its output/*.txt
Entries ==
    {[kind |-> "file", ctime |-> 0, mtime |-> 0, outputs |-> {}]}
    \cup [kind : {"dir"}, ctime : Times, mtime : Times, outputs : SUBSET Times]

\* the entries present in the root, in the order glob yields them
Listings ==
    {<<>>}
    \cup {<<n>> : n \in Names}
    \cup {<<p[1], p[2]>> : p \in {q \in Names \X Names : q[1] # q[2]}}

Range(s) == {s[i] : i \in 1..Len(s)}

Queues ==
    {<<>>,
     <<Job(Split(L_running, TAB), 0)>>,
     <<Job(Split(L_pending, TAB), 0)>>,
     <<Job(Split(L_running, TAB), 0), Job(Split(L_pending, TAB), 0)>>}

RecentInit ==
    /\ listing \in Listings
    /\ fs \in [Range(listing) -> Entries]
    /\ creation_cutoff \in Times
    /\ activity_cutoff \in Times
    /\ queue \in Queues
    /\ experiments = <<>>
    /\ recent = None
    /\ ParseUnused
    /\ AggUnused
    /\ MainUnused

GetRecent ==
    /\ recent = None
    /\ experiments' = Experiments(fs, listing, creation_cutoff)
    /\ recent' = <<get_recent(fs, listing, creation_cutoff, activity_cutoff, queue)>>
    /\ UNCHANGED <<fs, listing, creation_cutoff, activity_cutoff, queue, pvars, avars, mvars>>

RecentNext == GetRecent

SpecRecent == RecentInit /\ [][RecentNext]_vars

-----------------------------------------------------------------------------
(* What the claims about get_recent and get_last_activity_time speak of *)

Dirs == {n \in DOMAIN fs : fs[n].kind = "dir"}

Returned == recent[1]

\* the latest of the output files' modification times is t
LatestOutput(entry, t) == t \in entry.outputs /\ \A o \in entry.outputs : o <= t

\* the activity time of a directory, as the specification defines it
ActivityTime(entry) ==
    IF entry.outputs = {}
    THEN entry.mtime
    ELSE CHOOSE t \in entry.outputs : LatestOutput(entry, t)

JobNames == {queue[i].job_name : i \in 1..Len(queue)}

\* the three conditions of a recent experiment
Qualifies(n) ==
    /\ fs[n].ctime >= creation_cutoff
    /\ ActivityTime(fs[n]) >= activity_cutoff
    /\ n \notin JobNames

\* C3: every record get_recent returns is a directory of the root, created at
\* or after the creation cutoff, active at or after the activity cutoff, and
\* named unlike every job of the queue.
C3_ReturnedAreRecent ==
    recent # None =>
        \A i \in 1..Len(Returned) :
            /\ Returned[i].experiment_name \in Dirs
            /\ Qualifies(Returned[i].experiment_name)

\* C3's case: a directory passing both cutoffs is left out because a job of
\* the queue has its name, while another is returned
C3_Witness ==
    /\ recent # None
    /\ \E n \in Dirs :
          /\ n \in JobNames
          /\ fs[n].ctime >= creation_cutoff
          /\ ActivityTime(fs[n]) > activity_cutoff
    /\ Len(Returned) = 1

\* C4: every directory of the root created at or after the creation cutoff,
\* active at or after the activity cutoff (the cutoff itself included) and
\* named unlike every job of the queue is returned exactly once.
C4_AllRecentReturned ==
    recent # None =>
        \A n \in Dirs :
            Qualifies(n) =>
                Cardinality({i \in 1..Len(Returned) :
                                Returned[i].experiment_name = n}) = 1

\* C9: the activity time get_recent computes for a directory is the latest
\* modification time of its output files when it has any, whatever its own
\* modification time, and its own modification time when it has none.
C9_ActivityIsLatestOutput ==
    \A i \in 1..Len(experiments) :
        LET entry == fs[experiments[i].experiment_name]
        IN  IF entry.outputs = {}
            THEN experiments[i].time_activity = entry.mtime
            ELSE LatestOutput(entry, experiments[i].time_activity)

\* C9's case: get_recent has computed the activity time of a directory whose
\* output files are all older than its own modification time, and of one
\* that has none
C9_Witness ==
    /\ recent # None
    /\ \E i \in 1..Len(experiments) :
          LET entry == fs[experiments[i].experiment_name]
          IN  /\ entry.outputs # {}
              /\ entry.mtime > experiments[i].time_activity
    /\ \E i \in 1..Len(experiments) :
          fs[experiments[i].experiment_name].outputs = {}

-----------------------------------------------------------------------------
(* json.dump, json.loads *)

\* the JSON document of a value
json_dump(value) == [json |-> value]

\* a text that is no JSON document
NotJson(what) == [text |-> what]

json_loads_ok(text) == "json" \in DOMAIN text

json_loads(text) == text.json

-----------------------------------------------------------------------------
(* swiftbar.py: get_dashboard, get_dashboards *)

\* what get_dashboard makes of the completed ssh run: check=True raises
\* CalledProcessError on a non-zero exit, json.loads raises JSONDecodeError
get_dashboard_unchecked(result) ==
    IF json_loads_ok(result.stdout)
    THEN json_loads(result.stdout)
    ELSE [queue |-> <<>>, error |-> <<"Failed to parse JSON: ", result.stdout>>]
get_dashboard(result) ==
    IF result.returncode # 0
    THEN [queue |-> <<>>,
          error |-> <<"Command failed: ", result.returncode>>,
          output |-> result.stderr]
    ELSE IF json_loads_ok(result.stdout)
    THEN json_loads(result.stdout)
    ELSE [queue |-> <<>>, error |-> <<"Failed to parse JSON: ", result.stdout>>]

\* the comprehension of get_dashboards moves on to the next item, whatever
\* get_dashboard returned
NextItemUnlessError(place, dashboard) ==
    IF "error" \in DOMAIN dashboard THEN place ELSE place + 1
NextItem(place, dashboard) == place + 1

-----------------------------------------------------------------------------
(* The configurations and remote hosts get_dashboards is applied to *)

Keys == 1..MaxHosts

RECURSIVE Orders(_)
\* the sequences of distinct keys drawn from K
Orders(K) ==
    {<<>>} \cup UNION {{<<k>> \o o : o \in Orders(K \ {k})} : k \in K}

ExtendedPayload ==
    [queue |-> <<Job(Split(L_running, TAB), 0)>>,
     recent |-> <<[experiment_name |-> <<"bar">>, time_activity |-> isoformat(1)]>>]

MinimalPayload == [queue |-> <<>>]

SshResults ==
    {[returncode |-> 0, stdout |-> json_dump(ExtendedPayload), stderr |-> NotJson("")],
     [returncode |-> 0, stdout |-> json_dump(MinimalPayload), stderr |-> NotJson("")],
     [returncode |-> 0, stdout |-> NotJson("Welcome"), stderr |-> NotJson("")],
     [returncode |-> 1, stdout |-> json_dump(MinimalPayload), stderr |-> NotJson("Traceback")],
     [returncode |-> 255, stdout |-> NotJson(""), stderr |-> NotJson("Connection refused")]}

AggInit ==
    /\ servers \in Orders(Keys)
    /\ remote \in [Range(servers) -> SshResults]
    /\ pos = 1
    /\ inflight = None
    /\ dashboards = <<>>
    /\ a_pc = "iterating"
    /\ log = <<>>
    /\ ParseUnused
    /\ RecentUnused
    /\ MainUnused

\* get_dashboard(item): subprocess.run(["ssh", item["host"], ...]) starts
SshRun ==
    /\ a_pc = "iterating"
    /\ inflight = None
    /\ pos <= Len(servers)
    /\ inflight' = <<servers[pos]>>
    /\ log' = Append(log, [event |-> "run", key |-> servers[pos]])
    /\ UNCHANGED <<servers, remote, pos, dashboards, a_pc, pvars, rvars, mvars>>

\* the ssh run ends; get_dashboard returns and the entry is stored
SshDone ==
    /\ a_pc = "iterating"
    /\ inflight # None
    /\ LET key == inflight[1]
           dashboard == get_dashboard(remote[key])
       IN  /\ dashboards' =
                [k \in DOMAIN dashboards \cup {key} |->
                    IF k = key THEN dashboard ELSE dashboards[k]]
           /\ pos' = NextItem(pos, dashboard)
           /\ log' = Append(log, [event |-> "done", key |-> key])
    /\ inflight' = None
    /\ UNCHANGED <<servers, remote, a_pc, pvars, rvars, mvars>>

\* the comprehension is exhausted: return dashboards
ReturnDashboards ==
    /\ a_pc = "iterating"
    /\ inflight = None
    /\ pos > Len(servers)
    /\ a_pc' = "returned"
    /\ UNCHANGED <<servers, remote, pos, inflight, dashboards, log, pvars, rvars, mvars>>

AggNext == SshRun \/ SshDone \/ ReturnDashboards

SpecAgg == AggInit /\ [][AggNext]_vars

-----------------------------------------------------------------------------
(* What the claims about get_dashboards speak of *)

\* the remote call fails: a non-zero ssh exit, or a stdout that is no JSON
Failed(result) == result.returncode # 0 \/ "json" \notin DOMAIN result.stdout

ErrorEntry(dashboard) ==
    /\ dashboard.queue = <<>>
    /\ "error" \in DOMAIN dashboard
    /\ dashboard.error # <<>>

\* C1: get_dashboards returns exactly the configured keys; a failed host's
\* entry has an empty queue and a non-empty error; any other host's entry is
\* the payload its own remote call produced, whichever other hosts failed.
C1_FailureIsolated ==
    /\ \A k \in DOMAIN dashboards :
          IF Failed(remote[k])
          THEN ErrorEntry(dashboards[k])
          ELSE dashboards[k] = remote[k].stdout.json
    /\ a_pc = "returned" => DOMAIN dashboards = Range(servers)

\* C1's case: three hosts, the first failing by its exit status, the second
\* by its stdout, the third answering
C1_Witness ==
    /\ a_pc = "returned"
    /\ Len(servers) = 3
    /\ remote[servers[1]].returncode # 0
    /\ remote[servers[2]].returncode = 0 /\ Failed(remote[servers[2]])
    /\ ~Failed(remote[servers[3]])
    /\ "recent" \in DOMAIN dashboards[servers[3]]

\* the runs of one invocation over `order`: each key once, in order, each
\* run ended before the next starts
RECURSIVE OneAtATime(_)
OneAtATime(order) ==
    IF order = <<>>
    THEN <<>>
    ELSE <<[event |-> "run", key |-> Head(order)],
           [event |-> "done", key |-> Head(order)]>> \o OneAtATime(Tail(order))

IsPrefix(s, t) == Len(s) <= Len(t) /\ s = SubSeq(t, 1, Len(s))

\* C2: in one invocation each configured host is queried exactly once, a
\* failed host included, in the declared order, and a host's query starts
\* only after the query of the host before it has ended.
C2_OnceInOrder ==
    /\ IsPrefix(log, OneAtATime(servers))
    /\ a_pc = "returned" => log = OneAtATime(servers)

\* C2's case: three hosts declared out of key order, the first failing
C2_Witness ==
    /\ a_pc = "returned"
    /\ Len(servers) = 3
    /\ servers[1] > servers[2]
    /\ Failed(remote[servers[1]])
    /\ Len(log) = 6

-----------------------------------------------------------------------------
(* rc/dashboard.py: get_queue, main *)

\* dateparser.parse: None for a text it cannot parse, else <<the date>>;
\* "1 day" is relative to the clock, "2024-01-02" is day 1
dateparser_parse(text, clock) ==
    IF text = "1 day" THEN <<clock - 1>>
    ELSE IF text = "2024-01-02" THEN <<1>>
    ELSE None

\* what get_queue makes of the completed squeue run: check=True raises
\* CalledProcessError on a non-zero exit, rethrown as ClusterInfoException
get_queue_or_empty(result, clock) ==
    IF result.returncode # 0 THEN Return(<<>>) ELSE parse_queue(result.stdout, clock)
get_queue(result, clock) ==
    IF result.returncode # 0
    THEN Raise("ClusterInfoException")
    ELSE parse_queue(result.stdout, clock)

-----------------------------------------------------------------------------
(* The environments main runs in *)

SqueueHeader == <<"NAME", TAB, "STATE", TAB, "TIME_LEFT", TAB, "SUBMIT_TIME">>

\* squeue prints its header and no job, or one line of one of the kinds
SqueueResults ==
    {[returncode |-> 0, stdout |-> SqueueHeader \o <<NL>>, stderr |-> <<>>]}
    \cup {[returncode |-> 0, stdout |-> SqueueHeader \o Join(<<l>>) \o <<NL>>,
           stderr |-> <<>>] : l \in LineKinds}
    \cup {[returncode |-> 1, stdout |-> <<>>, stderr |-> <<"slurm_load_jobs", SP, "error">>]}

CutoffTexts == {"1 day", "2024-01-02", "soon-ish"}

MainEntries ==
    {[kind |-> "file", ctime |-> 0, mtime |-> 0, outputs |-> {}],
     [kind |-> "dir", ctime |-> MaxTime, mtime |-> MaxTime, outputs |-> {}],
     [kind |-> "dir", ctime |-> 0, mtime |-> 0, outputs |-> {MaxTime}]}

MainInit ==
    /\ squeue \in SqueueResults
    /\ args \in [recent_creation_cutoff : CutoffTexts, recent_activity_cutoff : CutoffTexts]
    /\ now \in 0..MaxNow
    /\ listing \in Listings
    /\ fs \in [Range(listing) -> MainEntries]
    /\ m_pc = "get_queue"
    /\ sys_stdout = <<>>
    /\ sys_stderr = <<>>
    /\ output = <<>> /\ calls = <<>> /\ at = <<>>
    /\ creation_cutoff = 0 /\ activity_cutoff = 0
    /\ queue = <<>> /\ experiments = <<>> /\ recent = None
    /\ AggUnused

\* queue = get_queue()
MainGetQueue ==
    /\ m_pc = "get_queue"
    /\ LET got == get_queue(squeue, now)
       IN  IF got.kind = "raise"
           THEN /\ m_pc' = "aborted"
                /\ sys_stderr' = Append(sys_stderr, got.error)
                /\ UNCHANGED queue
           ELSE /\ m_pc' = "cutoffs"
                /\ queue' = got.jobs
                /\ UNCHANGED sys_stderr
    /\ UNCHANGED <<squeue, args, sys_stdout, pvars, avars, fs, listing,
                   creation_cutoff, activity_cutoff, experiments, recent>>

\* the two dateparser.parse calls and the two checks for None
MainParseCutoffs ==
    /\ m_pc = "cutoffs"
    /\ LET recent_creation_cutoff_date ==
               dateparser_parse(args.recent_creation_cutoff, now)
           recent_activity_cutoff_date ==
               dateparser_parse(args.recent_activity_cutoff, now)
       IN  IF recent_creation_cutoff_date = None
           THEN /\ m_pc' = "aborted"
                /\ sys_stderr' = Append(sys_stderr, "ClickException")
                /\ UNCHANGED <<creation_cutoff, activity_cutoff>>
           ELSE IF recent_activity_cutoff_date = None
           THEN /\ m_pc' = "aborted"
                /\ sys_stderr' = Append(sys_stderr, "ClickException")
                /\ UNCHANGED <<creation_cutoff, activity_cutoff>>
           ELSE /\ m_pc' = "get_recent"
                /\ creation_cutoff' = recent_creation_cutoff_date[1]
                /\ activity_cutoff' = recent_activity_cutoff_date[1]
                /\ UNCHANGED sys_stderr
    /\ UNCHANGED <<squeue, args, sys_stdout, pvars, avars, fs, listing, queue,
                   experiments, recent>>

\* recent = get_recent(...)
MainGetRecent ==
    /\ m_pc = "get_recent"
    /\ experiments' = Experiments(fs, listing, creation_cutoff)
    /\ recent' = <<get_recent(fs, listing, creation_cutoff, activity_cutoff, queue)>>
    /\ m_pc' = "dump"
    /\ UNCHANGED <<squeue, args, sys_stdout, sys_stderr, pvars, avars, fs, listing,
                   creation_cutoff, activity_cutoff, queue>>

\* json.dump({"queue": queue, "recent": recent}, sys.stdout)
MainDump ==
    /\ m_pc = "dump"
    /\ sys_stdout' =
          Append(sys_stdout, json_dump([queue |-> queue, recent |-> recent[1]]))
    /\ m_pc' = "done"
    /\ UNCHANGED <<squeue, args, sys_stderr, pvars, avars, rvars>>

MainNext == MainGetQueue \/ MainParseCutoffs \/ MainGetRecent \/ MainDump

SpecMain == MainInit /\ [][MainNext]_vars

-----------------------------------------------------------------------------
(* What the claim about main speaks of *)

\* squeue exits with a status other than zero
RetrievalFails == squeue.returncode # 0

\* a 4-field data line of squeue's text has a time_started that does not parse
TimeStartedFails ==
    /\ squeue.returncode = 0
    /\ \E i \in 2..Len(LinesOf(Strip(squeue.stdout))) :
          LET line == LinesOf(Strip(squeue.stdout))[i]
          IN  /\ ~IsBlank(line)
              /\ FieldCount(line) = 4
              /\ ~fromisoformat_ok(Split(line, TAB)[4])

CutoffFails ==
    \/ args.recent_creation_cutoff = "soon-ish"
    \/ args.recent_activity_cutoff = "soon-ish"

\* C10: main writes nothing to its output stream when queue retrieval fails,
\* a time_started does not parse or a cutoff is unparseable, and then aborts;
\* what it writes is one payload of queue and recent, after retrieval, both
\* cutoff parses and the recency filter have succeeded.
C10_NoPartialDashboard ==
    /\ (RetrievalFails \/ TimeStartedFails \/ CutoffFails) =>
          /\ sys_stdout = <<>>
          /\ m_pc \notin {"get_recent", "dump", "done"}
    /\ m_pc = "aborted" => sys_stdout = <<>> /\ sys_stderr # <<>>
    /\ sys_stdout # <<>> =>
          /\ m_pc = "done"
          /\ recent # None
          /\ sys_stdout = <<[json |-> [queue |-> queue, recent |-> recent[1]]]>>
    /\ m_pc = "done" => sys_stdout # <<>>

\* C10's case: the queue is retrieved, with a job in it, the activity cutoff
\* is unparseable, and main has aborted
C10_Witness ==
    /\ m_pc = "aborted"
    /\ queue # <<>>
    /\ args.recent_activity_cutoff = "soon-ish"
    /\ sys_stdout = <<>>

====
